---- MODULE Spec2Model ----
(***************************************************************************)
(* Model of live_data::LiveData<T> (src/LiveData.h) for T = int.           *)
(*                                                                         *)
(* The container owns data_, the vector callbacks and the vector           *)
(* observers.  setValue / operator= assign data_ and run notifyAll, which  *)
(* calls user code; that user code may return, throw, or call back into    *)
(* the container.  A notification pass is therefore modelled as a stack of *)
(* frames (one per active setValue / operator= call) whose listeners are   *)
(* invoked one step at a time; what a listener does while it runs is the   *)
(* environment's choice.                                                   *)
(***************************************************************************)
EXTENDS Integers, Sequences, FiniteSets, TLC

\* ---------------------------------------------------------------- bounds
MaxVal       == 2   \* values of T are 0..MaxVal
MaxCallbacks == 2   \* registrations kept in callbacks
MaxObservers == 2   \* registrations kept in observers
MaxDepth     == 2   \* nested setValue calls (1 = no re-entrant setValue)
MaxReent     == 1   \* re-entrant API calls during one top-level setValue

Values       == 0..MaxVal
DefaultT     == 0                    \* T() for T = int
CallbackIds  == {"c1", "c2"}         \* distinct std::function targets
ObserverIds  == {"o1", "o2"}         \* distinct IObserver<T> objects
NullObs      == "null"               \* an empty std::shared_ptr
ObserverRefs == ObserverIds \cup {NullObs}
NoArg        == -1
NoId         == "-"

VARIABLES
  data_,      \* T data_
  callbacks,  \* std::vector<OnChangedCallback> callbacks
  observers,  \* std::vector<std::shared_ptr<IObserver<T>>> observers
  registered, \* the listeners registered since the last clear, in registration order
  owners,     \* per observer object: shared_ptr copies held outside the container
  alive,      \* per observer object: not yet destroyed
  stack,      \* active setValue/operator= calls, innermost last
  status,     \* "ok", "terminated" (std::terminate), "crashed" (undefined behaviour)
  ctor,       \* how the container was constructed, until data_ is first written
  log,        \* listener invocations made by the current or most recent top-level call
  cur,        \* the top-level setValue/operator= call in progress
  last,       \* the most recent completed top-level operation, while no call is active
  act         \* the most recent API call (top-level or re-entrant)

vars == <<data_, callbacks, observers, registered, owners, alive, stack, status, ctor,
          log, cur, last, act>>

\* ---------------------------------------------------------------- helpers
Top == stack[Len(stack)]

Idle == stack = <<>>

\* The record of a top-level operation: the call, the listeners registered
\* when it began, the re-entrant calls made during it, whether a listener
\* threw, the invocations it made and how it ended.  `before` is what is
\* remembered of the operation that came just before a setValue/operator=.
NoBrief == [op |-> "none", arg |-> NoArg, cbs |-> <<>>, obs |-> <<>>,
            threw |-> FALSE, log |-> <<>>, out |-> "none"]

NoCall == [op |-> "none", arg |-> NoArg, id |-> NoId, cbs |-> <<>>, obs |-> <<>>,
           reent |-> <<>>, threw |-> FALSE, log |-> <<>>, out |-> "none",
           before |-> NoBrief]

Brief(r) ==
  CASE r.op \in {"setValue", "operator="} /\ r.reent = <<>>
         /\ r.out \in {"returned", "thrown"} ->
         [op |-> r.op, arg |-> r.arg, cbs |-> r.cbs, obs |-> r.obs,
          threw |-> r.threw, log |-> r.log, out |-> r.out]
    [] r.op = "GetWrite" -> [NoBrief EXCEPT !.op = r.op, !.arg = r.arg, !.out = r.out]
    [] r.op = "clearCallbacksAndObservers" ->
         [NoBrief EXCEPT !.op = r.op, !.cbs = r.cbs, !.obs = r.obs, !.out = r.out]
    [] r.op \in {"addObserverCallback", "addObserver"} -> [NoBrief EXCEPT !.op = r.op, !.out = r.out]
    [] OTHER -> [NoBrief EXCEPT !.op = "other"]

OpRec(name, arg, id) ==
  [NoCall EXCEPT !.op = name, !.arg = arg, !.id = id, !.cbs = registered.cbs,
                 !.obs = registered.obs, !.out = "returned",
                 !.before = IF name = "clearCallbacksAndObservers"
                              THEN Brief(last) ELSE NoBrief]

\* Variant: the vector holds non-owning references (std::weak_ptr).
SlotRefs_Weak(s, o) == 0

\* Number of slots of the vector s that hold the observer o.
RECURSIVE SlotRefs(_, _)
SlotRefs(s, o) ==
  IF s = <<>> THEN 0
  ELSE (IF Head(s) = o THEN 1 ELSE 0) + SlotRefs(Tail(s), o)

\* The sequence a frame's range-for iterates: the live vector while the
\* frame's iterators are valid, the old contents once they are not.
PhaseSeq(f) ==
  IF ~f.valid THEN f.snap
  ELSE IF f.phase = "cb" THEN callbacks ELSE observers

\* Copies held by the loop variable `it` of the observer loops of the
\* frames in stk (the loop copies the shared_ptr for the duration of the call).
RECURSIVE LoopRefs(_, _, _)
LoopRefs(stk, obsv, o) ==
  IF stk = <<>> THEN 0
  ELSE LET f == Head(stk)
           s == IF f.valid THEN obsv ELSE f.snap
       IN (IF f.phase = "obs" /\ f.running /\ s[f.idx] = o THEN 1 ELSE 0)
          + LoopRefs(Tail(stk), obsv, o)

\* use_count of the observer o.
UseCount(o, own, obsv, stk) == own[o] + SlotRefs(obsv, o) + LoopRefs(stk, obsv, o)

\* An observer object is destroyed when its use_count reaches zero.
Reap(own, obsv, stk) ==
  [o \in ObserverIds |-> alive[o] /\ UseCount(o, own, obsv, stk) > 0]

\* An API call can be made by the client when no call is active, or by the
\* listener that is currently running.
CanCall ==
  /\ status = "ok"
  /\ \/ Idle
     \/ /\ ~Idle
        /\ Top.running
        /\ Len(cur.reent) < MaxReent

\* Bookkeeping of an API call that completes in one step.
Note(name, arg, id) ==
  /\ act' = [name |-> name, arg |-> arg, id |-> id, lvl |-> Len(stack)]
  /\ IF Idle
       THEN /\ last' = OpRec(name, arg, id)
            /\ cur' = cur
            /\ log' = <<>>
       ELSE /\ cur' = [cur EXCEPT !.reent = Append(@, [name |-> name, arg |-> arg,
                                                       id |-> id, phase |-> Top.phase]),
                                  !.before = NoBrief]
            /\ last' = last
            /\ log' = log

\* A write to a vector invalidates the iterators of every range-for that is
\* iterating it: such a frame keeps the old contents as what it may still read.
Invalidate(stk, ph, old) ==
  [i \in 1..Len(stk) |->
     IF stk[i].phase = ph /\ stk[i].valid
       THEN [stk[i] EXCEPT !.valid = FALSE, !.snap = old]
       ELSE stk[i]]

\* ---------------------------------------------------------------- construction
\* LiveData() = default with `T data_;` : a default-initialised LiveData<int>
\* (`LiveData<int> x;`) leaves data_ indeterminate, a value-initialised one
\* (`LiveData<int> x{};`) zeroes it, LiveData(args...) stores T(args...).
\* Variant: the forwarding constructor drops its arguments.
InitialData_NoForward(form, a, d) ==
  CASE form = "value" -> DefaultT
    [] form = "forward" -> DefaultT
    [] OTHER -> d

\* The member initialiser of data_: T(args...) for the forwarding constructor
\* (a), T() when value-initialised, an indeterminate value (d) otherwise.
InitialData(form, a, d) ==
  CASE form = "forward" -> a
    [] form = "value"   -> DefaultT
    [] OTHER            -> d

Init ==
  /\ \E form \in {"default", "value", "forward"} :
       \E a \in Values, d \in Values :
         /\ ctor = [form |-> form, arg |-> IF form = "forward" THEN a ELSE NoArg]
         /\ data_ = InitialData(form, a, d)
  /\ callbacks = <<>>
  /\ observers = <<>>
  /\ registered = [cbs |-> <<>>, obs |-> <<>>]
  /\ owners = [o \in ObserverIds |-> 1]
  /\ alive = [o \in ObserverIds |-> TRUE]
  /\ stack = <<>>
  /\ status = "ok"
  /\ log = <<>>
  /\ cur = NoCall
  /\ last = NoCall
  /\ act = [name |-> "construct", arg |-> NoArg, id |-> NoId, lvl |-> 0]

\* ---------------------------------------------------------------- registration
\* Variant: a callback that is already stored is not stored again.
addObserverCallback_Dedup(c) ==
  /\ CanCall
  /\ Len(callbacks) < MaxCallbacks
  /\ callbacks' = IF \E i \in 1..Len(callbacks) : callbacks[i] = c
                    THEN callbacks ELSE Append(callbacks, c)
  /\ registered' = [registered EXCEPT !.cbs = Append(@, c)]
  /\ stack' = Invalidate(stack, "cb", callbacks)
  /\ Note("addObserverCallback", NoArg, c)
  /\ UNCHANGED <<data_, observers, owners, alive, status, ctor>>

\* Variant: the callback is inserted at the front of the vector.
addObserverCallback_Front(c) ==
  /\ CanCall
  /\ Len(callbacks) < MaxCallbacks
  /\ callbacks' = <<c>> \o callbacks
  /\ registered' = [registered EXCEPT !.cbs = Append(@, c)]
  /\ stack' = Invalidate(stack, "cb", callbacks)
  /\ Note("addObserverCallback", NoArg, c)
  /\ UNCHANGED <<data_, observers, owners, alive, status, ctor>>

\* void addObserver(const OnChangedCallback& callback) noexcept
addObserverCallback(c) ==
  /\ CanCall
  /\ Len(callbacks) < MaxCallbacks
  /\ callbacks' = Append(callbacks, c)
  /\ registered' = [registered EXCEPT !.cbs = Append(@, c)]
  /\ stack' = Invalidate(stack, "cb", callbacks)
  /\ Note("addObserverCallback", NoArg, c)
  /\ UNCHANGED <<data_, observers, owners, alive, status, ctor>>

\* Variant: an observer that is already stored is not stored again.
addObserver_Dedup(o) ==
  /\ CanCall
  /\ Len(observers) < MaxObservers
  /\ o # NullObs => owners[o] > 0
  /\ observers' = IF \E i \in 1..Len(observers) : observers[i] = o
                    THEN observers ELSE Append(observers, o)
  /\ registered' = [registered EXCEPT !.obs = Append(@, o)]
  /\ stack' = Invalidate(stack, "obs", observers)
  /\ Note("addObserver", NoArg, o)
  /\ UNCHANGED <<data_, callbacks, owners, alive, status, ctor>>

\* Variant: a newly registered observer is at once handed the current value.
addObserver_Deliver(o) ==
  /\ CanCall /\ Idle
  /\ Len(observers) < MaxObservers
  /\ o # NullObs => owners[o] > 0
  /\ observers' = Append(observers, o)
  /\ registered' = [registered EXCEPT !.obs = Append(@, o)]
  /\ act' = [name |-> "addObserver", arg |-> NoArg, id |-> o, lvl |-> 0]
  /\ last' = OpRec("addObserver", NoArg, o)
  /\ log' = IF o = NullObs THEN <<>>
            ELSE <<[kind |-> "obs", id |-> o, arg |-> data_, lvl |-> 1]>>
  /\ UNCHANGED <<data_, callbacks, owners, alive, stack, status, ctor, cur>>

\* void addObserver(std::shared_ptr<IObserver<T>> observer) noexcept
addObserver(o) ==
  /\ CanCall
  /\ Len(observers) < MaxObservers
  /\ o # NullObs => owners[o] > 0
  /\ observers' = Append(observers, o)
  /\ registered' = [registered EXCEPT !.obs = Append(@, o)]
  /\ stack' = Invalidate(stack, "obs", observers)
  /\ Note("addObserver", NoArg, o)
  /\ UNCHANGED <<data_, callbacks, owners, alive, status, ctor>>

\* Variant: clearing also resets the value to T().
clear_ResetValue ==
  /\ CanCall
  /\ callbacks' = <<>>
  /\ observers' = <<>>
  /\ registered' = [cbs |-> <<>>, obs |-> <<>>]
  /\ stack' = Invalidate(Invalidate(stack, "cb", callbacks), "obs", observers)
  /\ alive' = Reap(owners, observers', stack')
  /\ data_' = DefaultT
  /\ Note("clearCallbacksAndObservers", NoArg, NoId)
  /\ UNCHANGED <<owners, status, ctor>>

\* Variant: only the callbacks are cleared.
clearCallbacksOnly ==
  /\ CanCall
  /\ callbacks' = <<>>
  /\ observers' = observers
  /\ registered' = [cbs |-> <<>>, obs |-> <<>>]
  /\ stack' = Invalidate(stack, "cb", callbacks)
  /\ alive' = alive
  /\ Note("clearCallbacksAndObservers", NoArg, NoId)
  /\ UNCHANGED <<data_, owners, status, ctor>>

\* void clearCallbacksAndObservers() noexcept
clearCallbacksAndObservers ==
  /\ CanCall
  /\ callbacks' = <<>>
  /\ observers' = <<>>
  /\ registered' = [cbs |-> <<>>, obs |-> <<>>]
  /\ stack' = Invalidate(Invalidate(stack, "cb", callbacks), "obs", observers)
  /\ alive' = Reap(owners, observers', stack')
  /\ Note("clearCallbacksAndObservers", NoArg, NoId)
  /\ UNCHANGED <<data_, owners, status, ctor>>

\* An outside holder of a shared_ptr to the observer o drops its copy.
Release(o) ==
  /\ CanCall
  /\ owners[o] > 0
  /\ owners' = [owners EXCEPT ![o] = @ - 1]
  /\ alive' = Reap(owners', observers, stack)
  /\ act' = [name |-> "Release", arg |-> NoArg, id |-> o, lvl |-> Len(stack)]
  /\ UNCHANGED <<registered, data_, callbacks, observers, stack, status, ctor, log, cur, last>>

\* ---------------------------------------------------------------- value access
Written == [form |-> "written", arg |-> NoArg]

\* Variant: the quiet setter runs notifyAll like setValue does.
setValueQuietly_Notifying(v) ==
  /\ CanCall
  /\ data_' = v
  /\ ctor' = [form |-> "written", arg |-> NoArg]
  /\ stack' = Append(stack, [op |-> "setValue", v |-> v, phase |-> "cb", idx |-> 0,
                              running |-> FALSE, valid |-> TRUE, snap |-> <<>>])
  /\ Note("setValueQuietly", v, NoId)
  /\ UNCHANGED <<registered, callbacks, observers, owners, alive, status>>

\* void setValueQuietly(U&& data) noexcept
setValueQuietly(v) ==
  /\ CanCall
  /\ data_' = v
  /\ ctor' = Written
  /\ Note("setValueQuietly", v, NoId)
  /\ UNCHANGED <<registered, callbacks, observers, owners, alive, stack, status>>

\* T& Get() noexcept, the caller reading through the returned reference.
Get ==
  /\ CanCall
  /\ Note("Get", data_, NoId)
  /\ UNCHANGED <<registered, data_, callbacks, observers, owners, alive, stack, status, ctor>>

\* Variant: a write through the reference runs notifyAll.
GetWrite_Notifying(v) ==
  /\ CanCall
  /\ data_' = v
  /\ ctor' = Written
  /\ stack' = Append(stack, [op |-> "setValue", v |-> v, phase |-> "cb", idx |-> 0,
                              running |-> FALSE, valid |-> TRUE, snap |-> <<>>])
  /\ Note("GetWrite", v, NoId)
  /\ UNCHANGED <<registered, callbacks, observers, owners, alive, status>>

\* T& Get() noexcept, the caller writing v through the returned reference.
GetWrite(v) ==
  /\ CanCall
  /\ data_' = v
  /\ ctor' = Written
  /\ Note("GetWrite", v, NoId)
  /\ UNCHANGED <<registered, callbacks, observers, owners, alive, stack, status>>

\* ---------------------------------------------------------------- notifyAll
NewFrame(op, v) ==
  [op |-> op, v |-> v, phase |-> "cb", idx |-> 0, running |-> FALSE,
   valid |-> TRUE, snap |-> <<>>]

\* Variant: the `if (it)` test is missing.
Invocable_Any(o) == TRUE

\* `if (it)` : an observer slot is invoked only when the shared_ptr is non-empty.
Invocable(o) == o # NullObs

\* Index of the next callback the first loop of notifyAll invokes, 0 when
\* that loop is over.
NextCb(f) ==
  IF f.phase = "cb" /\ f.idx < Len(PhaseSeq(f)) THEN f.idx + 1 ELSE 0

\* Variant: the second loop iterates the observers as they were when the
\* running call started.
ObsSeq_Snapshot(f) ==
  IF f.phase = "cb" THEN cur.obs
  ELSE SubSeq(PhaseSeq(f), 1, IF Len(cur.obs) < Len(PhaseSeq(f))
                                THEN Len(cur.obs) ELSE Len(PhaseSeq(f)))

\* The vector the second loop of notifyAll iterates and the slot it has reached.
ObsSeq(f)  == IF f.phase = "cb" THEN observers ELSE PhaseSeq(f)
ObsFrom(f) == IF f.phase = "cb" THEN 0 ELSE f.idx

\* Index of the next observer slot the second loop of notifyAll invokes
\* (empty slots are passed over), 0 when there is none.
NextObs(f) ==
  LET s    == ObsSeq(f)
      cand == {j \in (ObsFrom(f) + 1)..Len(s) : Invocable(s[j])}
  IN IF cand = {} THEN 0 ELSE CHOOSE j \in cand : \A k \in cand : j <= k

\* The frame's range-for would next read through an invalidated iterator.
Dangling(f) ==
  /\ ~f.valid
  /\ \/ f.phase = "cb" /\ NextCb(f) # 0
     \/ f.phase = "obs" /\ NextObs(f) # 0

SetTop(f) == [stack EXCEPT ![Len(stack)] = f]

\* Variant: the listener receives a copy of the argument of the running setValue.
Entry_Passed(kind, id) == [kind |-> kind, id |-> id, arg |-> Top.v, lvl |-> Len(stack)]

\* The invocation it(data_) / it->Observe(data_): the listener is handed a
\* reference to data_ as it is at the time of the invocation.
Entry(kind, id) == [kind |-> kind, id |-> id, arg |-> data_, lvl |-> Len(stack)]

\* it(data_) in `for (const auto& it : callbacks)`
InvokeCallback ==
  /\ status = "ok" /\ ~Idle /\ ~Top.running
  /\ Top.valid
  /\ NextCb(Top) # 0
  /\ LET i == NextCb(Top) IN
       /\ log' = Append(log, Entry("cb", callbacks[i]))
       /\ stack' = SetTop([Top EXCEPT !.idx = i, !.running = TRUE])
  /\ UNCHANGED <<registered, data_, callbacks, observers, owners, alive, status, ctor,
                 cur, last, act>>

\* it->Observe(data_) in `for (std::shared_ptr<IObserver<T>> it : observers)`
InvokeObserver ==
  /\ status = "ok" /\ ~Idle /\ ~Top.running
  /\ NextCb(Top) = 0
  /\ Top.phase = "cb" \/ Top.valid
  /\ NextObs(Top) # 0
  /\ LET i == NextObs(Top) IN
       /\ log' = Append(log, Entry("obs", observers[i]))
       /\ stack' = SetTop([Top EXCEPT !.phase = "obs", !.idx = i, !.running = TRUE,
                                      !.valid = TRUE, !.snap = <<>>])
  /\ UNCHANGED <<registered, data_, callbacks, observers, owners, alive, status, ctor,
                 cur, last, act>>

\* The running listener returns to notifyAll.
ListenerReturn ==
  /\ status = "ok" /\ ~Idle /\ Top.running
  /\ stack' = SetTop([Top EXCEPT !.running = FALSE])
  /\ alive' = Reap(owners, observers, stack')
  /\ UNCHANGED <<registered, data_, callbacks, observers, owners, status, ctor, log,
                 cur, last, act>>

Done(out) == [cur EXCEPT !.log = log, !.out = out]

\* notifyAll and the setValue / operator= that called it return.
Finish ==
  /\ status = "ok" /\ ~Idle /\ ~Top.running
  /\ NextCb(Top) = 0
  /\ NextObs(Top) = 0
  /\ stack' = SubSeq(stack, 1, Len(stack) - 1)
  /\ IF stack' = <<>>
       THEN /\ last' = Done("returned")
            /\ cur' = NoCall
       ELSE UNCHANGED <<cur, last>>
  /\ UNCHANGED <<registered, data_, callbacks, observers, owners, alive, status, ctor, log, act>>

\* An exception leaves the innermost notifyAll.  setValue lets it through to
\* its caller; operator= is declared noexcept, so the exception reaching its
\* boundary calls std::terminate.
Raise ==
  LET popped == SubSeq(stack, 1, Len(stack) - 1) IN
  /\ IF Top.op = "operator="
       THEN /\ status' = "terminated"
            /\ stack' = <<>>
            /\ last' = [Done("terminated") EXCEPT !.threw = TRUE]
            /\ cur' = NoCall
       ELSE /\ status' = status
            /\ stack' = popped
            /\ IF popped = <<>>
                 THEN /\ last' = [Done("thrown") EXCEPT !.threw = TRUE]
                      /\ cur' = NoCall
                 ELSE /\ cur' = [cur EXCEPT !.threw = TRUE]
                      /\ last' = last
  /\ alive' = Reap(owners, observers, stack')

\* Variant: notifyAll swallows the exception and goes on with the pass.
ListenerThrow_Isolated ==
  /\ status = "ok" /\ ~Idle /\ Top.running
  /\ stack' = SetTop([Top EXCEPT !.running = FALSE])
  /\ alive' = Reap(owners, observers, stack')
  /\ cur' = [cur EXCEPT !.threw = TRUE]
  /\ UNCHANGED <<registered, data_, callbacks, observers, owners, status, ctor, log,
                 last, act>>

\* The running listener throws.
ListenerThrow ==
  /\ status = "ok" /\ ~Idle /\ Top.running
  /\ Raise
  /\ UNCHANGED <<registered, data_, callbacks, observers, owners, ctor, log, act>>

\* ---------------------------------------------------------------- setValue, operator=
\* data_ = std::forward<U>(data); notifyAll();
StartStoring(op, v, stored) ==
  /\ CanCall
  /\ Len(stack) < MaxDepth
  /\ data_' = stored
  /\ ctor' = Written
  /\ stack' = Append(stack, NewFrame(op, v))
  /\ act' = [name |-> op, arg |-> v, id |-> NoId, lvl |-> Len(stack)]
  /\ IF Idle
       THEN /\ cur' = [NoCall EXCEPT !.op = op, !.arg = v, !.cbs = registered.cbs,
                                     !.obs = registered.obs, !.out = "running",
                                     !.before = Brief(last)]
            /\ log' = <<>>
            /\ last' = NoCall
       ELSE /\ cur' = [cur EXCEPT !.reent = Append(@, [name |-> op, arg |-> v,
                                                       id |-> NoId, phase |-> Top.phase]),
                                  !.before = NoBrief]
            /\ log' = log
            /\ last' = last
  /\ UNCHANGED <<registered, callbacks, observers, owners, alive, status>>

\* Variant: the assignment to data_ is lost, the listeners are still notified.
setValue_NoStore(v) == StartStoring("setValue", v, data_)

\* Variant: a value equal to the held one is dropped without notification.
setValue_IfChanged(v) ==
  IF v # data_
    THEN StartStoring("setValue", v, v)
    ELSE /\ CanCall /\ Idle
         /\ act' = [name |-> "setValue", arg |-> v, id |-> NoId, lvl |-> 0]
         /\ last' = [NoCall EXCEPT !.op = "setValue", !.arg = v,
                                   !.cbs = registered.cbs, !.obs = registered.obs,
                                   !.out = "returned", !.before = Brief(last)]
         /\ log' = <<>>
         /\ ctor' = Written
         /\ UNCHANGED <<data_, callbacks, observers, registered, owners, alive, stack,
                        status, cur>>

\* void setValue(U&& data)
setValue(v) == StartStoring("setValue", v, v)

\* LiveData<T>& operator=(const T& data) noexcept : setValue(data); return *this;
Assign(v) == StartStoring("operator=", v, v)

\* ---------------------------------------------------------------- invalidated iterators
\* A listener changed the vector that an enclosing range-for is iterating.
\* The loop goes on with its old begin/end: it may find the old element still
\* callable, find an emptied std::function (std::bad_function_call), or fault.
StaleInvoke ==
  /\ status = "ok" /\ ~Idle /\ ~Top.running
  /\ Dangling(Top)
  /\ LET i == IF Top.phase = "cb" THEN NextCb(Top) ELSE NextObs(Top) IN
       /\ log' = Append(log, Entry(Top.phase, Top.snap[i]))
       /\ stack' = SetTop([Top EXCEPT !.idx = i, !.running = TRUE])
  /\ UNCHANGED <<registered, data_, callbacks, observers, owners, alive, status, ctor,
                 cur, last, act>>

StaleThrow ==
  /\ status = "ok" /\ ~Idle /\ ~Top.running
  /\ Dangling(Top)
  /\ Top.phase = "cb"
  /\ Raise
  /\ UNCHANGED <<registered, data_, callbacks, observers, owners, ctor, log, act>>

StaleCrash ==
  /\ status = "ok" /\ ~Idle /\ ~Top.running
  /\ Dangling(Top)
  /\ status' = "crashed"
  /\ stack' = <<>>
  /\ last' = Done("crashed")
  /\ cur' = NoCall
  /\ UNCHANGED <<registered, data_, callbacks, observers, owners, alive, ctor, log, act>>

\* ---------------------------------------------------------------- specifications
\* The steps of a notification pass whose listeners return or throw.
Notify ==
  \/ InvokeCallback
  \/ InvokeObserver
  \/ ListenerReturn
  \/ Finish

\* Spec: a client calls the container; listeners return or throw and do
\* not call back into the container.
Next ==
  \/ \E c \in CallbackIds : Idle /\ addObserverCallback(c)
  \/ \E o \in ObserverRefs : Idle /\ addObserver(o)
  \/ Idle /\ clearCallbacksAndObservers
  \/ \E v \in Values : Idle /\ setValue(v)
  \/ \E v \in Values : Idle /\ Assign(v)
  \/ \E v \in Values : Idle /\ setValueQuietly(v)
  \/ Idle /\ Get
  \/ \E v \in Values : Idle /\ GetWrite(v)
  \/ Notify
  \/ ListenerThrow

Spec == Init /\ [][Next]_vars

\* SpecOwn: observers whose outside owners drop their references, also
\* while a notification pass is running.
NextOwn ==
  \/ \E o \in ObserverRefs : Idle /\ addObserver(o)
  \/ Idle /\ clearCallbacksAndObservers
  \/ \E o \in ObserverIds : Release(o)
  \/ \E v \in Values : Idle /\ setValue(v)
  \/ InvokeObserver
  \/ ListenerReturn
  \/ Finish

SpecOwn == Init /\ [][NextOwn]_vars

\* SpecReent: listeners may call back into the container while they run.
NextReent ==
  \/ \E c \in CallbackIds : addObserverCallback(c)
  \/ \E o \in ObserverRefs : addObserver(o)
  \/ clearCallbacksAndObservers
  \/ \E v \in Values : setValue(v)
  \/ \E v \in Values : setValueQuietly(v)
  \/ Notify
  \/ StaleInvoke
  \/ StaleThrow
  \/ StaleCrash

SpecReent == Init /\ [][NextReent]_vars

\* SpecQuiet: the quiet setter called by the client or by a running listener.
NextQuiet ==
  \/ \E c \in CallbackIds : Idle /\ addObserverCallback(c)
  \/ \E o \in ObserverRefs : Idle /\ addObserver(o)
  \/ \E v \in Values : Idle /\ setValue(v)
  \/ \E v \in Values : setValueQuietly(v)
  \/ Notify

SpecQuiet == Init /\ [][NextQuiet]_vars

\* SpecWrite: a running listener may call setValue or setValueQuietly on the
\* container that is notifying it; the listener vectors change only between
\* passes.
NextWrite ==
  \/ \E c \in CallbackIds : Idle /\ addObserverCallback(c)
  \/ \E o \in ObserverRefs : Idle /\ addObserver(o)
  \/ \E v \in Values : setValue(v)
  \/ \E v \in Values : setValueQuietly(v)
  \/ Notify

SpecWrite == Init /\ [][NextWrite]_vars

\* SpecReg: a callback may register an observer on the container that is
\* notifying it, while the first loop of notifyAll is running.
OutsideObserverLoop == IF Idle THEN TRUE ELSE Top.phase = "cb"

NextReg ==
  \/ \E c \in CallbackIds : Idle /\ addObserverCallback(c)
  \/ \E o \in ObserverRefs : OutsideObserverLoop /\ addObserver(o)
  \/ \E v \in Values : Idle /\ setValue(v)
  \/ Notify

SpecReg == Init /\ [][NextReg]_vars

TypeOK ==
  /\ data_ \in Values
  /\ Len(callbacks) <= MaxCallbacks
  /\ Len(observers) <= MaxObservers
  /\ Len(stack) <= MaxDepth
  /\ status \in {"ok", "terminated", "crashed"}

\* ---------------------------------------------------------------- properties
Range(s) == {s[i] : i \in 1..Len(s)}

Count(s, x) == Cardinality({i \in 1..Len(s) : s[i] = x})

Times(n, v) == [i \in 1..n |-> v]

Ids(s) == [i \in 1..Len(s) |-> s[i].id]

OfKind(s, kind) == SelectSeq(s, LAMBDA e : e.kind = kind)

\* The values the listener x of the given kind received, in order.
ArgsTo(s, kind, x) ==
  LET t == SelectSeq(s, LAMBDA e : e.kind = kind /\ e.id = x)
  IN [i \in 1..Len(t) |-> t[i].arg]

RECURSIVE NonNull(_)
NonNull(s) ==
  IF s = <<>> THEN <<>>
  ELSE IF Head(s) = NullObs THEN NonNull(Tail(s))
       ELSE <<Head(s)>> \o NonNull(Tail(s))

IsSet(r) == r.op \in {"setValue", "operator="}

\* The call returned to its caller and no listener threw during it.
Clean(r) == IsSet(r) /\ r.out = "returned" /\ ~r.threw

\* ... and no listener called back into the container during it.
Normal(r) == Clean(r) /\ r.reent = <<>>

\* C1: after set(v1) followed by set(v2), both returning normally with no
\* listener re-entering, get() is v2 and every listener registered before
\* both calls has been invoked exactly twice per registration, with v1 then v2.
C1_TwoSets ==
  (Idle /\ Normal(last) /\ last.op = "setValue"
        /\ Clean(last.before) /\ last.before.op = "setValue")
  => LET b    == last.before
         both == b.log \o last.log
     IN /\ data_ = last.arg
        /\ \A c \in CallbackIds :
             ArgsTo(both, "cb", c) =
               Times(Count(b.cbs, c), b.arg) \o Times(Count(b.cbs, c), last.arg)
        /\ \A o \in ObserverIds :
             ArgsTo(both, "obs", o) =
               Times(Count(b.obs, o), b.arg) \o Times(Count(b.obs, o), last.arg)

C1_Witness ==
  /\ Idle /\ Normal(last) /\ last.op = "setValue"
  /\ Clean(last.before) /\ last.before.op = "setValue"
  /\ last.before.arg # last.arg
  /\ last.before.cbs # <<>>
  /\ NonNull(last.before.obs) # <<>>
  /\ data_ = last.arg

\* C2: in the notification pass of every set/assign call the callbacks run
\* in registration order, the observers run in registration order, and every
\* callback runs before every observer, however the registrations were
\* interleaved.
C2_Order ==
  Normal(last)
  => /\ Ids(OfKind(last.log, "cb")) = last.cbs
     /\ Ids(OfKind(last.log, "obs")) = NonNull(last.obs)
     /\ \A i, j \in 1..Len(last.log) :
          (last.log[i].kind = "obs" /\ last.log[j].kind = "cb") => j < i

\* An observer was registered before the last callback was, and both
\* callbacks ran before both observers.
C2_Witness ==
  /\ Normal(last)
  /\ last.before.op = "addObserverCallback"
  /\ Len(last.cbs) = 2 /\ last.cbs[1] # last.cbs[2]
  /\ Len(NonNull(last.obs)) = 2 /\ last.obs[1] # last.obs[2]
  /\ Len(last.log) = 4

\* The step is a call of the API operation `name`, by the client or by a
\* running listener.
Called(name) ==
  /\ act'.name = name
  /\ Idle \/ Len(cur'.reent) = Len(cur.reent) + 1

\* C3: setQuietly(v) makes get() return v and invokes no listener: no
\* invocation is made and no notification pass is started by the call,
\* whether the client makes it or a listener that is running.
C3_Quiet ==
  [][Called("setValueQuietly")
       => /\ data_' = act'.arg
          /\ stack' = stack
          /\ log' = (IF Idle THEN <<>> ELSE log)]_vars

C3_Witness ==
  /\ Idle
  /\ last.op = "setValueQuietly"
  /\ data_ = last.arg
  /\ callbacks # <<>>
  /\ NonNull(observers) # <<>>
  /\ log = <<>>

\* C4: a set(v) that follows clearListeners() with no registration in between
\* invokes no listener and leaves get() = v.
C4_AfterClear ==
  (IsSet(last) /\ last.before.op = "clearCallbacksAndObservers")
  => /\ last.log = <<>>
     /\ last.out = "returned"
     /\ data_ = last.arg

\* The clear removed callbacks and observers that were registered.
C4_Witness ==
  /\ last.op = "setValue" /\ last.before.op = "clearCallbacksAndObservers"
  /\ last.before.cbs # <<>>
  /\ NonNull(last.before.obs) # <<>>
  /\ last.log = <<>>
  /\ data_ = last.arg

\* C5: a listener that throws during the notification pass of assign(v)
\* makes the failure reach the caller of assign, as it does for set(v), and
\* the rest of the pass is not run.
C5_AssignFailurePropagates ==
  (last.op = "operator=" /\ last.threw)
  => /\ last.out = "thrown"
     /\ status = "ok"
     /\ Len(last.log) <= Len(last.cbs) + Len(NonNull(last.obs))

\* C6: assign(v) is observably equivalent to set(v).  A set(v) followed by an
\* assign(v) with the same listeners behaving the same way makes the same
\* invocations and ends the same way, with the same value; and two chained
\* assigns leave the second value after two complete passes.
C6_AssignLikeSet ==
  LET b == last.before IN
  /\ (/\ last.op = "operator=" /\ last.reent = <<>>
      /\ b.op = "setValue" /\ b.arg = last.arg
      /\ b.cbs = last.cbs /\ b.obs = last.obs
      /\ b.threw = last.threw /\ Len(b.log) = Len(last.log))
     => /\ last.log = b.log
        /\ last.out = b.out
        /\ data_ = last.arg
  /\ (/\ last.op = "operator=" /\ Normal(last)
      /\ b.op = "operator=" /\ Clean(b))
     => /\ data_ = last.arg
        /\ Len(b.log) = Len(b.cbs) + Len(NonNull(b.obs))
        /\ Len(last.log) = Len(last.cbs) + Len(NonNull(last.obs))
        /\ \A i \in 1..Len(b.log) : b.log[i].arg = b.arg
        /\ \A i \in 1..Len(last.log) : last.log[i].arg = last.arg

\* C7 as claimed: once every outside owner has released a registered
\* observer, its slot in the container is empty.
C7_ReleasedSlotEmpty ==
  \A i \in 1..Len(observers) :
    (observers[i] # NullObs /\ owners[observers[i]] = 0) => FALSE

\* C7 as amended: the container's own reference keeps a registered observer
\* alive.  A non-empty slot never becomes empty and its observer is never
\* destroyed while registered, and every set goes on invoking it, whether or
\* not an outside owner remains.
C7_SlotKeepsAlive ==
  /\ \A i \in 1..Len(observers) :
       observers[i] # NullObs => alive[observers[i]]
  /\ observers = registered.obs
  /\ (~Idle /\ Top.phase = "obs" /\ Top.running) => alive[observers[Top.idx]]
  /\ Normal(last) => Ids(OfKind(last.log, "obs")) = NonNull(last.obs)

\* An observer without outside owner was invoked by a set that began after
\* the release.
C7_Witness ==
  /\ Idle /\ Normal(last) /\ act.name = "setValue"
  /\ \E o \in ObserverIds :
       /\ owners[o] = 0
       /\ alive[o]
       /\ o \in Range(observers)
       /\ o \in Range(Ids(last.log))

\* C8: an empty observer reference is stored as it is; every later set
\* passes over it without failing and still invokes every callback and every
\* non-empty observer exactly once, in their normal order.
C8_NullSkipped ==
  /\ registered.obs = observers
  /\ (IsSet(last) /\ NullObs \in Range(last.obs) /\ ~last.threw /\ last.reent = <<>>)
     => /\ last.out = "returned"
        /\ status = "ok"
        /\ Ids(last.log) = last.cbs \o NonNull(last.obs)
        /\ \A i \in 1..Len(last.log) : last.log[i].arg = last.arg

\* The empty reference was registered before a non-empty observer.
C8_Witness ==
  /\ Normal(last)
  /\ Len(last.obs) = 2 /\ last.obs[1] = NullObs /\ last.obs[2] # NullObs
  /\ last.cbs # <<>>
  /\ Len(last.log) = Len(last.cbs) + 1

\* C9: a container constructed with no arguments holds T(), 0 for int,
\* before any mutation.
C9_DefaultIsZero ==
  (act.name = "Get" /\ ctor.form \in {"default", "value"}) => act.arg = DefaultT

\* C10: a write through the reference returned by get() changes what get()
\* returns and invokes no listener; a later set delivers the value passed to
\* that set, to every listener once.
C10_GetWrite ==
  [][/\ Called("GetWrite")
        => /\ data_' = act'.arg
           /\ stack' = stack
           /\ log' = <<>>
     /\ (Normal(last') /\ last'.before.op = "GetWrite")
        => /\ Ids(last'.log) = last'.cbs \o NonNull(last'.obs)
           /\ \A i \in 1..Len(last'.log) : last'.log[i].arg = last'.arg]_vars

C10_Witness ==
  /\ Normal(last) /\ last.before.op = "GetWrite"
  /\ last.before.arg # last.arg
  /\ last.cbs # <<>>
  /\ NonNull(last.obs) # <<>>
  /\ data_ = last.arg

\* C11: every operation leaves each listener sequence unchanged, appends
\* exactly one entry to it (registerCallback to the callbacks, registerObserver
\* to the observers) or empties it (clearListeners); set, setQuietly, assign,
\* get and the notification steps change neither, and nothing removes or
\* reorders single entries.
C11_Sequences ==
  [][/\ Called("addObserverCallback")
        => callbacks' = Append(callbacks, act'.id) /\ observers' = observers
     /\ Called("addObserver")
        => observers' = Append(observers, act'.id) /\ callbacks' = callbacks
     /\ Called("clearCallbacksAndObservers")
        => callbacks' = <<>> /\ observers' = <<>>
     /\ ~(\/ Called("addObserverCallback")
          \/ Called("addObserver")
          \/ Called("clearCallbacksAndObservers"))
        => callbacks' = callbacks /\ observers' = observers]_vars

\* A registration appended to a sequence that already held an entry.
C11_Witness ==
  /\ last.op = "addObserver"
  /\ last.obs # <<>>
  /\ observers = Append(last.obs, last.id)
  /\ callbacks # <<>>

\* C12: clearListeners() empties both sequences and leaves the value as it
\* is; on a container without listeners it changes nothing, so a second call
\* in a row yields the state the first one left.
C12_ClearIdempotent ==
  [][Called("clearCallbacksAndObservers")
       => /\ callbacks' = <<>> /\ observers' = <<>>
          /\ data_' = data_
          /\ (callbacks = <<>> /\ observers = <<>>)
             => UNCHANGED <<data_, callbacks, observers, registered, owners, alive,
                            stack, status, ctor>>]_vars

\* Two calls in a row, the first of which removed listeners.
C12_Witness ==
  /\ last.op = "clearCallbacksAndObservers"
  /\ last.before.op = "clearCallbacksAndObservers"
  /\ last.before.cbs # <<>> /\ last.before.obs # <<>>
  /\ last.cbs = <<>> /\ last.obs = <<>>
  /\ callbacks = <<>> /\ observers = <<>>

\* C13: after LiveData(args...) the first Get() yields T(args...), and
\* construction, default or forwarding, invokes no listener: the constructed
\* container has run no notification and holds no listener.
C13_Construction ==
  /\ (log = <<>> /\ stack = <<>> /\ callbacks = <<>> /\ observers = <<>>)
  /\ [][(act.name = "construct" /\ act'.name = "Get" /\ ctor.form = "forward")
          => act'.arg = ctor.arg]_vars

\* Get() as the first call on a container constructed from a non-default value.
C13_Witness ==
  /\ ctor.form = "forward" /\ ctor.arg # DefaultT
  /\ act.name = "Get" /\ act.arg = ctor.arg
  /\ last.op = "Get" /\ last.cbs = <<>> /\ last.obs = <<>>
  /\ log = <<>>

\* The listeners a pass over the registrations of r invokes, in order.
Expected(r) == r.cbs \o NonNull(r.obs)

\* C14: when a listener fails during setValue(v), the failure reaches the
\* caller, the value is already v, the listeners before the failing one were
\* each invoked once with v, in order, and no listener after it was invoked.
C14_FailingListener ==
  (last.op = "setValue" /\ last.threw /\ last.reent = <<>>)
    => /\ last.out = "thrown"
       /\ status = "ok"
       /\ data_ = last.arg
       /\ Len(last.log) >= 1
       /\ Len(last.log) <= Len(Expected(last))
       /\ Ids(last.log) = SubSeq(Expected(last), 1, Len(last.log))
       /\ \A i \in 1..Len(last.log) : last.log[i].arg = last.arg

\* A listener in the middle of the pass failed: one ran before it, one is left.
C14_Witness ==
  /\ last.op = "setValue" /\ last.threw /\ last.out = "thrown"
  /\ Len(last.log) >= 2
  /\ Len(last.log) < Len(Expected(last))
  /\ data_ = last.arg
  /\ last.before.op \in {"setValue", "GetWrite"} /\ last.before.arg # last.arg

\* C15: callbacks are not deduplicated: a set that returns normally invokes
\* the callbacks registration by registration, so a callback registered k times
\* is invoked k times, at the positions of its registrations.
C15_NoDedup ==
  Normal(last)
    => /\ Len(last.log) >= Len(last.cbs)
       /\ \A i \in 1..Len(last.cbs) :
            /\ last.log[i].kind = "cb"
            /\ last.log[i].id = last.cbs[i]
            /\ last.log[i].arg = last.arg
       /\ \A c \in CallbackIds :
            Len(ArgsTo(last.log, "cb", c)) = Count(last.cbs, c)

\* The same callback registered twice, invoked twice by one set.
C15_Witness ==
  /\ Normal(last)
  /\ \E c \in CallbackIds :
       /\ last.cbs = <<c, c>>
       /\ ArgsTo(last.log, "cb", c) = <<last.arg, last.arg>>
  /\ callbacks = last.cbs

\* The calls in r.reent that store a value.
Writes(r) == SelectSeq(r.reent, LAMBDA e : e.name \in {"setValue", "setValueQuietly"})

\* C16 as stated: every invocation made by the pass of a top-level set(v)
\* itself receives v, also when an earlier listener re-entered with set(w) or
\* setQuietly(w).
C16_AlwaysPassedValue ==
  (last.op = "setValue" /\ Clean(last))
    => \A i \in 1..Len(last.log) :
         last.log[i].lvl = 1 => last.log[i].arg = last.arg

\* C16, amended: every invocation receives the value the container holds when
\* the invocation is made: v while no listener has re-entered with a write,
\* and the value of the most recent re-entrant set(w) / setQuietly(w) after it.
C16_CurrentValue ==
  [][(Len(log') = Len(log) + 1)
       => LET e == log'[Len(log')]
              W == Writes(cur)
          IN /\ e.arg = data_
             /\ e.arg = IF W = <<>> THEN cur.arg ELSE W[Len(W)].arg]_vars

\* A listener of the outer pass of set(v) ran after another listener had
\* re-entered with w # v, and received w.
C16_Witness ==
  /\ last.op = "setValue" /\ Clean(last)
  /\ Len(Writes(last)) = 1
  /\ Writes(last)[1].arg # last.arg
  /\ \E i \in 1..Len(last.log) : \E j \in 1..Len(last.log) :
       /\ i < j
       /\ last.log[i].lvl = 1 /\ last.log[i].arg = last.arg
       /\ last.log[j].lvl = 1 /\ last.log[j].arg = Writes(last)[1].arg

\* The value stored by the operation right before the call r, when r
\* followed a write of a known value.
StoredBefore(r) ==
  IF r.before.op \in {"setValue", "operator=", "GetWrite"} THEN r.before.arg ELSE NoArg

\* C17: set(v) does no change detection: when the container already holds v,
\* set(v) still invokes every registered callback and every non-null observer
\* exactly once, with v.
C17_NoChangeDetection ==
  (Normal(last) /\ last.op = "setValue" /\ StoredBefore(last) = last.arg)
    => /\ Ids(last.log) = Expected(last)
       /\ \A i \in 1..Len(last.log) : last.log[i].arg = last.arg
       /\ data_ = last.arg

\* set(v) right after set(v), on a container with callbacks and observers.
C17_Witness ==
  /\ Normal(last) /\ last.op = "setValue"
  /\ last.before.op = "setValue" /\ last.before.arg = last.arg
  /\ last.cbs # <<>> /\ NonNull(last.obs) # <<>>
  /\ Ids(last.log) = Expected(last)

\* C18: registration delivers nothing: addObserver(callback) and
\* addObserver(observer) invoke no listener, start no notification and leave
\* the value as it is; the listener registered last is invoked for the first
\* time by the next set, with the value of that set.
C18_RegistrationSilent ==
  /\ [](Normal(last) /\ last.before.op = "addObserverCallback"
          => /\ last.cbs # <<>>
             /\ last.log[Len(last.cbs)] =
                  [kind |-> "cb", id |-> last.cbs[Len(last.cbs)],
                   arg |-> last.arg, lvl |-> 1])
  /\ [](Normal(last) /\ last.before.op = "addObserver"
          => /\ last.obs # <<>>
             /\ last.obs[Len(last.obs)] # NullObs
                  => last.log[Len(last.log)] =
                       [kind |-> "obs", id |-> last.obs[Len(last.obs)],
                        arg |-> last.arg, lvl |-> 1])
  /\ [][Called("addObserverCallback") \/ Called("addObserver")
          => /\ data_' = data_
             /\ stack' = stack
             /\ log' = <<>>]_vars

\* A second observer is registered and the next set(w) follows at once: the
\* new observer received w, once, and nothing else.
C18_Witness ==
  /\ Normal(last) /\ last.before.op = "addObserver"
  /\ Len(last.obs) = 2 /\ last.obs[1] # last.obs[2] /\ last.obs[2] # NullObs
  /\ ArgsTo(last.log, "obs", last.obs[2]) = <<last.arg>>
  /\ data_ = last.arg

\* The observers registered by listeners during the call r, in order.
RegisteredDuring(r) ==
  LET t == SelectSeq(r.reent, LAMBDA e : e.name = "addObserver")
  IN [i \in 1..Len(t) |-> t[i].id]

\* C19: notifyAll takes no snapshot of the vectors: an observer that a
\* callback registers while the callback loop of set(v) is running is invoked
\* by the observer loop of that same set(v), after the observers registered
\* before the call, with v.
C19_NoSnapshot ==
  (last.op = "setValue" /\ Clean(last)
     /\ \A i \in 1..Len(last.reent) :
          last.reent[i].name = "addObserver" /\ last.reent[i].phase = "cb")
    => /\ Ids(OfKind(last.log, "cb")) = last.cbs
       /\ Ids(OfKind(last.log, "obs")) = NonNull(last.obs \o RegisteredDuring(last))
       /\ \A i \in 1..Len(last.log) : last.log[i].arg = last.arg

\* A callback registered an observer during the pass and the same pass
\* invoked it, after an observer registered earlier.
C19_Witness ==
  /\ last.op = "setValue" /\ Clean(last)
  /\ Len(last.reent) = 1
  /\ last.reent[1].name = "addObserver" /\ last.reent[1].phase = "cb"
  /\ last.reent[1].id # NullObs
  /\ Len(last.obs) = 1 /\ last.obs[1] # NullObs /\ last.obs[1] # last.reent[1].id
  /\ Ids(OfKind(last.log, "obs")) = <<last.obs[1], last.reent[1].id>>

\* Some running notifyAll is inside its loop over the callbacks: the loop has
\* invoked a callback that has not returned yet.
IteratingCallbacks ==
  \E i \in 1..Len(stack) : stack[i].phase = "cb" /\ stack[i].running

\* C20: while a notification pass is iterating the callback vector, no step
\* appends to it or empties it, also when the running callback calls
\* addObserver(callback) or clearCallbacksAndObservers on the same container.
C20_CallbacksStableDuringPass ==
  [][IteratingCallbacks => callbacks' = callbacks]_vars

====
